---- MODULE Spec2Model ----
(***************************************************************************)
(* Payment sessions of the reverse payment proxy: the payment service      *)
(* (CreatePaymentSession, GetPaymentSession, VerifyPayment), the content   *)
(* service (CheckAccess) and the content-serving handler, over the tables  *)
(* of the PostgreSQL schema.  Request workers run concurrently; each       *)
(* database statement is one atomic step, and every read of the wall clock *)
(* is a step of its own, so the clock may advance between two reads.       *)
(***************************************************************************)
EXTENDS Integers, Sequences, FiniteSets, TLC

(* ------------------------------ bounds --------------------------------- *)

\* rows the payment_sessions table may hold
MaxSessions == 2
\* clock advances explored
MaxTicks == 1
\* entries of the log of status reads
MaxReads == 2
\* rows the bank_transactions table may hold
MaxTx == 1
\* requests and bank events received in one run
MaxCalls == 4
\* rows of content_access drawn by the access specification
MaxGrants == 2
\* latest expiry time drawn for a content_access row
MaxExpiry == 2

(* -------------------------- program constants -------------------------- *)

\* time.Hour, in seconds
Hour == 3600
\* payment.session_timeout default "15m", in seconds
SessionTimeout == 900

\* SQL NULL of a timestamp column (every time of the model is >= 0)
NULL == -1
\* SQL NULL of user_identifier (Go: empty string is stored as NULL)
NoUser == "NULL"

Workers == {1, 2}
SessionIDs == 1 .. MaxSessions
Merchants == {"m1", "m2"}
Users == {"", "u1"}

\* the API key of the demo merchant, and the key of a caller that sends none
DemoKey == "demo_api_key_12345"
NoKey == ""
ApiKeys == {NoKey, DemoKey}
\* callers that present the key of a merchant
KnownKeys == {DemoKey}

\* the middleware each route group of /api/v1 runs before its handlers
RouteMiddleware ==
  [payments |-> {}, content |-> {}, merchants |-> {"AuthRequired"},
   admin |-> {"AuthRequired"}]

\* the authentication middleware lets a request through when it carries the
\* API key of a merchant
AuthRequired(apiKey) == apiKey \in KnownKeys

\* a request reaches the handlers of a group when the group's middleware
\* lets it through
Admits(group, apiKey) ==
  "AuthRequired" \in RouteMiddleware[group] => AuthRequired(apiKey)

\* rows of the content table: the two sample rows of the demo merchant and
\* one inactive row of another merchant
content ==
  { [content_id |-> "c1", merchant_id |-> "m1", price_cents |-> 250,
     currency |-> "EUR", access_duration_seconds |-> 3600, is_active |-> TRUE],
    [content_id |-> "c2", merchant_id |-> "m1", price_cents |-> 500,
     currency |-> "EUR", access_duration_seconds |-> 7200, is_active |-> TRUE],
    [content_id |-> "c3", merchant_id |-> "m2", price_cents |-> 100,
     currency |-> "EUR", access_duration_seconds |-> 60, is_active |-> FALSE] }

ContentIDs == { c.content_id : c \in content }
\* content ids a caller may ask for: those of the table and one no row has
RequestedContentIDs == ContentIDs \cup {"c0"}

VARIABLES
  now,               \* the wall clock, in seconds (time.Now(), NOW())
  payment_sessions,  \* table payment_sessions: session_id -> row
  content_access,    \* table content_access: set of rows
  bank_transactions, \* table bank_transactions: set of observed bank events
  pc,                \* per worker: the statement it is about to run
  local,             \* per worker: the local variables of its call
  results,           \* per worker: what its last call returned
  sweep,             \* the expiry sweep: its position and the rows it selected
  reads,             \* log of <<session_id, status>> returned by status reads
  rowsAffected,      \* per session: rows changed by settle / expire updates
  calls,             \* requests and bank events received so far
  config             \* the configuration loaded at start

vars == << now, payment_sessions, content_access, bank_transactions, pc, local,
           results, sweep, reads, rowsAffected, calls, config >>

(* ------------------------------ helpers -------------------------------- *)

RECURSIVE Digits(_)
\* fmt "%d" of a non-negative integer, one character per element
Digits(n) ==
  LET d == CASE n % 10 = 0 -> "0" [] n % 10 = 1 -> "1" [] n % 10 = 2 -> "2"
             [] n % 10 = 3 -> "3" [] n % 10 = 4 -> "4" [] n % 10 = 5 -> "5"
             [] n % 10 = 6 -> "6" [] n % 10 = 7 -> "7" [] n % 10 = 8 -> "8"
             [] OTHER -> "9"
  IN  IF n < 10 THEN << d >> ELSE Digits(n \div 10) \o << d >>

\* a reference whose prefix is in lower case
PaymentRef_LowerCase(t) == << "p", "a", "y", "-" >> \o Digits(t)

\* fmt.Sprintf("PAY-%d", time.Now().Unix())
PaymentRef(t) == << "P", "A", "Y", "-" >> \o Digits(t)

\* the QR payload: reference, amount as %.2f of cents/100, currency
QRCodeData(ref, price, currency) ==
  [ref |-> ref, units |-> price \div 100, hundredths |-> price % 100,
   currency |-> currency]

\* setDefaults: payment.session_timeout
DefaultConfig == [session_timeout |-> SessionTimeout]

NoLocal == [none |-> TRUE]
NoResult == [op |-> "none"]

TickSteps == {1, SessionTimeout}

\* clock advances made so far (the clock starts at 0)
Ticks == (now \div SessionTimeout) + (now % SessionTimeout)

Init ==
  /\ now = 0
  /\ payment_sessions = << >>
  /\ content_access = {}
  /\ bank_transactions = {}
  /\ pc = [p \in Workers |-> "idle"]
  /\ local = [p \in Workers |-> NoLocal]
  /\ results = [p \in Workers |-> NoResult]
  /\ sweep = [pc |-> "idle", at |-> 0, todo |-> {}]
  /\ reads = << >>
  /\ rowsAffected = [s \in SessionIDs |-> [paid |-> 0, expired |-> 0]]
  /\ calls = 0
  /\ config = DefaultConfig

\* the server hands a request to a free worker; free workers do not differ,
\* so the first of them takes it
Accepts(p) ==
  /\ pc[p] = "idle"
  /\ calls < MaxCalls
  /\ \A q \in Workers : pc[q] = "idle" => p <= q

(* ------------------------------ the clock ------------------------------ *)

Tick ==
  /\ UNCHANGED config
  /\ Ticks < MaxTicks
  /\ \E d \in TickSteps : now' = now + d
  /\ UNCHANGED << payment_sessions, content_access, bank_transactions, pc, local,
                  results, sweep, reads, rowsAffected, calls >>

(* ------------------------ CreatePaymentSession ------------------------- *)

\* a WHERE clause that leaves the merchant out
ContentWhere_NoMerchant(row, contentID, merchantID) ==
  /\ row.content_id = contentID
  /\ row.is_active

\* WHERE content_id = $1 AND merchant_id = $2 AND is_active = true
ContentWhere(row, contentID, merchantID) ==
  /\ row.content_id = contentID
  /\ row.merchant_id = merchantID
  /\ row.is_active

Creating == { p \in Workers : pc[p] \in {"create_expires", "create_created", "create_insert"} }

\* the content query, then the payment reference and QR data from time.Now()
CreateLookup(p, apiKey, merchantID, contentID, userIdentifier) ==
  /\ UNCHANGED config
  /\ Accepts(p)
  /\ Admits("payments", apiKey)
  /\ calls' = calls + 1
  /\ Cardinality(DOMAIN payment_sessions) + Cardinality(Creating) < MaxSessions
  /\ LET rows == { r \in content : ContentWhere(r, contentID, merchantID) } IN
       IF rows = {}
       THEN /\ results' = [results EXCEPT ![p] =
                 [op |-> "CreatePaymentSession", err |-> "content not found", code |-> 500,
                  api_key |-> apiKey, merchant_id |-> merchantID,
                  content_id |-> contentID]]
            /\ pc' = [pc EXCEPT ![p] = "return"]
            /\ UNCHANGED local
       ELSE /\ \E c \in rows :
                 local' = [local EXCEPT ![p] =
                   [api_key |-> apiKey, merchant_id |-> merchantID, content |-> c,
                    user_identifier |-> IF userIdentifier = "" THEN NoUser ELSE userIdentifier,
                    unix |-> now, payment_reference |-> PaymentRef(now),
                    expires_at |-> NULL, created_at |-> NULL]]
            /\ pc' = [pc EXCEPT ![p] = "create_expires"]
            /\ UNCHANGED results
  /\ UNCHANGED << now, payment_sessions, content_access, bank_transactions, sweep,
                  reads, rowsAffected >>

\* ExpiresAt: time.Now().Add(s.config.Payment.SessionTimeout)
CreateExpires(p) ==
  /\ UNCHANGED config
  /\ pc[p] = "create_expires"
  /\ local' = [local EXCEPT ![p].expires_at = now + config.session_timeout]
  /\ pc' = [pc EXCEPT ![p] = "create_created"]
  /\ UNCHANGED << now, payment_sessions, content_access, bank_transactions, results,
                  sweep, reads, rowsAffected, calls >>

\* CreatedAt: time.Now()
CreateCreated(p) ==
  /\ UNCHANGED config
  /\ pc[p] = "create_created"
  /\ local' = [local EXCEPT ![p].created_at = now]
  /\ pc' = [pc EXCEPT ![p] = "create_insert"]
  /\ UNCHANGED << now, payment_sessions, content_access, bank_transactions, results,
                  sweep, reads, rowsAffected, calls >>

\* a session struct whose paid time is set at creation
NewSession_PaidAtCreation(id, l) ==
  [session_id |-> id, merchant_id |-> l.merchant_id, content_id |-> l.content.content_id,
   user_identifier |-> l.user_identifier, amount_cents |-> l.content.price_cents,
   currency |-> l.content.currency, payment_reference |-> l.payment_reference,
   qr_code_data |-> QRCodeData(l.payment_reference, l.content.price_cents, l.content.currency),
   status |-> "pending", expires_at |-> l.expires_at, created_at |-> l.created_at,
   paid_at |-> l.created_at, access_granted_at |-> NULL, access_expires_at |-> NULL]

\* the session struct built from the content row and the locals
NewSession(id, l) ==
  [session_id |-> id, merchant_id |-> l.merchant_id, content_id |-> l.content.content_id,
   user_identifier |-> l.user_identifier, amount_cents |-> l.content.price_cents,
   currency |-> l.content.currency, payment_reference |-> l.payment_reference,
   qr_code_data |-> QRCodeData(l.payment_reference, l.content.price_cents, l.content.currency),
   status |-> "pending", expires_at |-> l.expires_at, created_at |-> l.created_at,
   paid_at |-> NULL, access_granted_at |-> NULL, access_expires_at |-> NULL]

\* a table without the UNIQUE constraint on payment_reference
InsertAllowed_NoUnique(row, table) ==
  /\ Len(row.payment_reference) <= 35
  /\ row.amount_cents > 0
  /\ row.expires_at > row.created_at

\* a table without the constraint check_expires_future
InsertAllowed_NoExpiryCheck(row, table) ==
  /\ \A s \in DOMAIN table : table[s].payment_reference # row.payment_reference
  /\ Len(row.payment_reference) <= 35
  /\ row.amount_cents > 0

\* the constraints of payment_sessions an INSERT must satisfy
InsertAllowed(row, table) ==
  /\ \A s \in DOMAIN table : table[s].payment_reference # row.payment_reference
  /\ Len(row.payment_reference) <= 35
  /\ row.amount_cents > 0
  /\ row.expires_at > row.created_at

\* uuid.New(): an identifier no row has
FreshID(table) == CHOOSE id \in SessionIDs \ DOMAIN table :
                    \A other \in SessionIDs \ DOMAIN table : id <= other

\* INSERT INTO payment_sessions, and the return
CreateInsert(p) ==
  /\ UNCHANGED config
  /\ pc[p] = "create_insert"
  /\ LET row == NewSession(FreshID(payment_sessions), local[p]) IN
       IF InsertAllowed(row, payment_sessions)
       THEN /\ payment_sessions' =
                 [s \in DOMAIN payment_sessions \cup {row.session_id} |->
                    IF s = row.session_id THEN row ELSE payment_sessions[s]]
            /\ results' = [results EXCEPT ![p] =
                 [op |-> "CreatePaymentSession", err |-> "nil", code |-> 201,
                  api_key |-> local[p].api_key, session_id |-> row.session_id,
                  session |-> row]]
       ELSE /\ results' = [results EXCEPT ![p] =
                 [op |-> "CreatePaymentSession",
                  err |-> "failed to create payment session", code |-> 500,
                  api_key |-> local[p].api_key]]
            /\ UNCHANGED payment_sessions
  /\ pc' = [pc EXCEPT ![p] = "return"]
  /\ UNCHANGED << now, content_access, bank_transactions, local, sweep, reads,
                  rowsAffected, calls >>

(* -------------------------- GetPaymentSession -------------------------- *)

\* a status answer that gives the access expiry as the paid time
StatusResponse_GrantedAsPaid(row) ==
  [session_id |-> row.session_id, status |-> row.status,
   amount_cents |-> row.amount_cents, currency |-> row.currency,
   expires_at |-> row.expires_at, paid_at |-> row.access_expires_at,
   access_granted_at |-> row.access_granted_at,
   access_expires_at |-> row.access_expires_at]

\* the JSON the status handler answers with
StatusResponse(row) ==
  [session_id |-> row.session_id, status |-> row.status,
   amount_cents |-> row.amount_cents, currency |-> row.currency,
   expires_at |-> row.expires_at, paid_at |-> row.paid_at,
   access_granted_at |-> row.access_granted_at,
   access_expires_at |-> row.access_expires_at]

\* SELECT ... FROM payment_sessions WHERE session_id = $1, and the status handler
GetPaymentSession(p, apiKey, sessionID) ==
  /\ UNCHANGED config
  /\ Accepts(p)
  /\ Admits("payments", apiKey)
  /\ calls' = calls + 1
  /\ Len(reads) < MaxReads
  /\ IF sessionID \in DOMAIN payment_sessions
     THEN /\ reads' = Append(reads, << sessionID, payment_sessions[sessionID].status >>)
          /\ results' = [results EXCEPT ![p] =
               [op |-> "GetPaymentSession", err |-> "nil", code |-> 200,
                api_key |-> apiKey, session_id |-> sessionID,
                status |-> payment_sessions[sessionID].status,
                session |-> payment_sessions[sessionID],
                body |-> StatusResponse(payment_sessions[sessionID])]]
     ELSE /\ results' = [results EXCEPT ![p] =
               [op |-> "GetPaymentSession", err |-> "payment session not found",
                code |-> 404, api_key |-> apiKey, session_id |-> sessionID]]
          /\ UNCHANGED reads
  /\ pc' = [pc EXCEPT ![p] = "return"]
  /\ UNCHANGED << now, payment_sessions, content_access, bank_transactions, local,
                  sweep, rowsAffected >>

(* ----------------------------- VerifyPayment --------------------------- *)

\* accessExpiresAt := time.Now().Add(time.Hour)
AccessExpiresAt(t) == t + Hour

\* a WHERE clause that leaves the session out
VerifyWhere_AnySession(row, sessionID) ==
  row.status = "pending"

\* a WHERE clause that leaves the status out
VerifyWhere_NoStatus(row, sessionID) ==
  row.session_id = sessionID

\* a WHERE clause that only refuses sessions already paid
VerifyWhere_NotPaid(row, sessionID) ==
  /\ row.session_id = sessionID
  /\ row.status # "paid"

\* WHERE session_id = $4 AND status = $5 (pending)
VerifyWhere(row, sessionID) ==
  /\ row.session_id = sessionID
  /\ row.status = "pending"

\* SET status = $1, paid_at = $2, access_granted_at = $2, access_expires_at = $3
VerifySet(row, paidAt, accessExpiresAt) ==
  [row EXCEPT !.status = "paid", !.paid_at = paidAt, !.access_granted_at = paidAt,
              !.access_expires_at = accessExpiresAt]

\* the handler takes any well-formed session id, whether or not a row has it
VerifyBegin(p, apiKey, sessionID) ==
  /\ UNCHANGED config
  /\ Accepts(p)
  /\ Admits("payments", apiKey)
  /\ calls' = calls + 1
  /\ local' = [local EXCEPT ![p] =
       [api_key |-> apiKey, session_id |-> sessionID,
        accessExpiresAt |-> AccessExpiresAt(now),
        paid_at |-> NULL]]
  /\ pc' = [pc EXCEPT ![p] = "verify_args"]
  /\ UNCHANGED << now, payment_sessions, content_access, bank_transactions, results,
                  sweep, reads, rowsAffected >>

\* the arguments of Exec: time.Now() for $2
VerifyArgs(p) ==
  /\ UNCHANGED config
  /\ pc[p] = "verify_args"
  /\ local' = [local EXCEPT ![p].paid_at = now]
  /\ pc' = [pc EXCEPT ![p] = "verify_exec"]
  /\ UNCHANGED << now, payment_sessions, content_access, bank_transactions, results,
                  sweep, reads, rowsAffected, calls >>

\* the UPDATE, one atomic statement; err is nil whatever the number of rows
\* changed, and the handler answers 200 "Payment verified successfully"
VerifyExec(p) ==
  /\ UNCHANGED config
  /\ pc[p] = "verify_exec"
  /\ LET l == local[p]
         hit == { s \in DOMAIN payment_sessions :
                    VerifyWhere(payment_sessions[s], l.session_id) }
     IN  /\ payment_sessions' =
              [s \in DOMAIN payment_sessions |->
                 IF s \in hit
                 THEN VerifySet(payment_sessions[s], l.paid_at, l.accessExpiresAt)
                 ELSE payment_sessions[s]]
         /\ rowsAffected' =
              [s \in SessionIDs |->
                 IF s \in hit
                 THEN [rowsAffected[s] EXCEPT !.paid = @ + 1]
                 ELSE rowsAffected[s]]
         /\ results' = [results EXCEPT ![p] =
              [op |-> "VerifyPayment", err |-> "nil", code |-> 200,
               api_key |-> l.api_key, session_id |-> l.session_id, rows |-> Cardinality(hit),
               report |-> "Payment verified successfully"]]
  /\ pc' = [pc EXCEPT ![p] = "return"]
  /\ UNCHANGED << now, content_access, bank_transactions, local, sweep, reads, calls >>

(* -------------------------- ExpireStaleSessions ------------------------ *)

\* a selection that leaves out the session whose expiry time is now
ExpireWhere_AfterExpiry(row, t) ==
  /\ row.status = "pending"
  /\ row.expires_at < t

\* status = pending and expiry time <= now
ExpireWhere(row, t) ==
  /\ row.status = "pending"
  /\ row.expires_at <= t

\* the sweep reads the clock and selects the stale pending sessions
ExpireSelect ==
  /\ UNCHANGED config
  /\ sweep.pc = "idle"
  /\ LET todo == { s \in DOMAIN payment_sessions : ExpireWhere(payment_sessions[s], now) }
     IN  sweep' = IF todo = {} THEN [pc |-> "idle", at |-> 0, todo |-> {}]
                  ELSE [pc |-> "cas", at |-> now, todo |-> todo]
  /\ UNCHANGED << now, payment_sessions, content_access, bank_transactions, pc, local,
                  results, reads, rowsAffected, calls >>

\* the conditional transition pending -> expired of one selected session
ExpireCAS(s) ==
  /\ UNCHANGED config
  /\ sweep.pc = "cas"
  /\ s \in sweep.todo
  /\ IF ExpireWhere(payment_sessions[s], sweep.at)
     THEN /\ payment_sessions' = [payment_sessions EXCEPT ![s].status = "expired"]
          /\ rowsAffected' = [rowsAffected EXCEPT ![s].expired = @ + 1]
     ELSE UNCHANGED << payment_sessions, rowsAffected >>
  /\ sweep' = IF sweep.todo = {s} THEN [pc |-> "idle", at |-> 0, todo |-> {}]
              ELSE [sweep EXCEPT !.todo = @ \ {s}]
  /\ UNCHANGED << now, content_access, bank_transactions, pc, local, results, reads, calls >>

(* ------------------------------ bank feed ------------------------------ *)

Currencies == {"EUR", "USD"}
Amounts == { c.price_cents : c \in { r \in content : r.is_active } }

\* a payer's transfer, observed by the bank: it carries the reference of a
\* session, an amount and a currency
BankTransfer(s, amount, currency) ==
  /\ UNCHANGED config
  /\ Cardinality(bank_transactions) < MaxTx
  /\ calls < MaxCalls
  /\ calls' = calls + 1
  /\ s \in DOMAIN payment_sessions
  /\ bank_transactions' = bank_transactions \cup
       { [payment_reference |-> payment_sessions[s].payment_reference,
          amount_cents |-> amount, currency |-> currency] }
  /\ bank_transactions' # bank_transactions
  /\ UNCHANGED << now, payment_sessions, content_access, pc, local, results, sweep,
                  reads, rowsAffected >>

(* ------------------------------ CheckAccess ---------------------------- *)

\* a WHERE clause that leaves is_active out
AccessWhere_IgnoresActive(row, contentID, userIdentifier, t) ==
  /\ row.content_id = contentID
  /\ row.user_identifier = userIdentifier
  /\ row.expires_at > t

\* a WHERE clause that leaves the user out
AccessWhere_AnyUser(row, contentID, userIdentifier, t) ==
  /\ row.content_id = contentID
  /\ row.is_active
  /\ row.expires_at > t

\* a WHERE clause that still admits a grant at its expiry time
AccessWhere_AtExpiry(row, contentID, userIdentifier, t) ==
  /\ row.content_id = contentID
  /\ row.user_identifier = userIdentifier
  /\ row.is_active
  /\ row.expires_at >= t

\* WHERE content_id = $1 AND user_identifier = $2 AND is_active = true
\*   AND expires_at > NOW()
AccessWhere(row, contentID, userIdentifier, t) ==
  /\ row.content_id = contentID
  /\ row.user_identifier = userIdentifier
  /\ row.is_active
  /\ row.expires_at > t

\* the rows the query of CheckAccess selects; QueryRow scans the first of
\* them, in no stated order, and fails with sql.ErrNoRows when there is none
AccessRows(contentID, userIdentifier, t) ==
  { a \in content_access : AccessWhere(a, contentID, userIdentifier, t) }

AccessUsers == {"u1", "u2"}
\* the content handler looks the content up by path among the active rows
ServedContentIDs == { c.content_id : c \in { r \in content : r.is_active } }

CheckAccess(p, apiKey, contentID, userIdentifier) ==
  /\ UNCHANGED config
  /\ Accepts(p)
  /\ Admits("content", apiKey)
  /\ calls' = calls + 1
  /\ LET rows == AccessRows(contentID, userIdentifier, now) IN
       IF rows = {}
       THEN results' = [results EXCEPT ![p] =
              [op |-> "CheckAccess", err |-> "access not found", hasAccess |-> FALSE,
               code |-> 402, body |-> "Payment required",
               api_key |-> apiKey, content_id |-> contentID, user_identifier |-> userIdentifier, at |-> now]]
       ELSE \E a \in rows :
              results' = [results EXCEPT ![p] =
                [op |-> "CheckAccess", err |-> "nil", hasAccess |-> TRUE,
                 code |-> 200, body |-> "Content access granted",
                 api_key |-> apiKey, content_id |-> contentID, user_identifier |-> userIdentifier,
                 at |-> now, access |-> a]]
  /\ pc' = [pc EXCEPT ![p] = "return"]
  /\ UNCHANGED << now, payment_sessions, content_access, bank_transactions, local,
                  sweep, reads, rowsAffected >>

(* ------------------------------- return ------------------------------- *)

\* the response has been written: the worker takes the next request
Return(p) ==
  /\ UNCHANGED config
  /\ pc[p] = "return"
  /\ pc' = [pc EXCEPT ![p] = "idle"]
  /\ results' = [results EXCEPT ![p] = NoResult]
  /\ local' = [local EXCEPT ![p] = NoLocal]
  /\ UNCHANGED << now, payment_sessions, content_access, bank_transactions, sweep,
                  reads, rowsAffected, calls >>

(* --------------------------- specifications ---------------------------- *)

Next ==
  \/ Tick
  \/ \E p \in Workers, k \in KnownKeys, m \in Merchants, c \in RequestedContentIDs,
          u \in Users : CreateLookup(p, k, m, c, u)
  \/ \E p \in Workers : CreateExpires(p)
  \/ \E p \in Workers : CreateCreated(p)
  \/ \E p \in Workers : CreateInsert(p)
  \/ \E p \in Workers, k \in KnownKeys, s \in SessionIDs : GetPaymentSession(p, k, s)
  \/ \E p \in Workers, k \in KnownKeys, s \in SessionIDs : VerifyBegin(p, k, s)
  \/ \E p \in Workers : VerifyArgs(p)
  \/ \E p \in Workers : VerifyExec(p)
  \/ ExpireSelect
  \/ \E s \in SessionIDs : ExpireCAS(s)
  \/ \E s \in SessionIDs, a \in Amounts, c \in Currencies : BankTransfer(s, a, c)
  \/ \E p \in Workers, k \in KnownKeys, c \in ServedContentIDs, u \in AccessUsers :
       CheckAccess(p, k, c, u)
  \/ \E p \in Workers : Return(p)

Spec == Init /\ [][Next]_vars

(* ------------- the access check over any content_access table ---------- *)

\* rows content_access may hold: with or without an originating session, for
\* a served content and a user, granted at 0, expiring later, active or not
GrantRow(id, f) ==
  [access_id |-> id, session_id |-> NULL, content_id |-> f[1], user_identifier |-> f[2],
   granted_at |-> 0, expires_at |-> f[3], is_active |-> f[4]]

GrantFields == ServedContentIDs \X AccessUsers \X (1 .. MaxExpiry) \X BOOLEAN

InitAccess ==
  /\ now = 0
  /\ payment_sessions = << >>
  /\ \E n \in 0 .. MaxGrants : \E f \in [1 .. n -> GrantFields] :
       content_access = { GrantRow(i, f[i]) : i \in 1 .. n }
  /\ bank_transactions = {}
  /\ pc = [p \in Workers |-> "idle"]
  /\ local = [p \in Workers |-> NoLocal]
  /\ results = [p \in Workers |-> NoResult]
  /\ sweep = [pc |-> "idle", at |-> 0, todo |-> {}]
  /\ reads = << >>
  /\ rowsAffected = [s \in SessionIDs |-> [paid |-> 0, expired |-> 0]]
  /\ calls = 0
  /\ config = DefaultConfig

NextAccess ==
  \/ Tick
  \/ \E p \in Workers, k \in KnownKeys, c \in ServedContentIDs, u \in AccessUsers :
       CheckAccess(p, k, c, u)
  \/ \E p \in Workers : Return(p)

SpecAccess == InitAccess /\ [][NextAccess]_vars

(* ------------------------------- claims -------------------------------- *)

Sessions == DOMAIN payment_sessions
Status(s) == payment_sessions[s].status

\* worker p has run the UPDATE of a VerifyPayment and not yet answered
Verified(p) == pc[p] = "return" /\ results[p].op = "VerifyPayment"

\* worker p runs the UPDATE of VerifyPayment in this step
VerifyExecStep(p) == pc[p] = "verify_exec" /\ pc'[p] = "return"

\* C1: two concurrent settlement attempts for one pending session settle it
\* exactly once: the UPDATE of an attempt on a pending session makes it paid
\* with that attempt's timestamps, the UPDATE of an attempt on a session that
\* is no longer pending changes no row, every attempt is answered as a
\* success, and no session is ever settled twice.
C1_SettledExactlyOnce ==
  /\ [](\A s \in SessionIDs : rowsAffected[s].paid <= 1)
  /\ [](\A p \in Workers : Verified(p) => results[p].err = "nil" /\ results[p].code = 200)
  /\ [][\A p \in Workers : VerifyExecStep(p) /\ local[p].session_id \in Sessions =>
          LET s == local[p].session_id IN
            IF Status(s) = "pending"
            THEN /\ payment_sessions'[s].status = "paid"
                 /\ payment_sessions'[s].paid_at = local[p].paid_at
                 /\ payment_sessions'[s].access_granted_at = local[p].paid_at
                 /\ payment_sessions'[s].access_expires_at = local[p].accessExpiresAt
                 /\ rowsAffected'[s].paid = 1
            ELSE /\ payment_sessions' = payment_sessions
                 /\ rowsAffected' = rowsAffected]_vars

\* C1 witness: both workers have run the UPDATE for the same session and not
\* yet answered; one changed the row, the other, which had read the clock for
\* its arguments before the winner did, changed nothing
C1_Witness ==
  \E p, q \in Workers :
    /\ p # q /\ Verified(p) /\ Verified(q)
    /\ results[p].session_id = results[q].session_id
    /\ results[p].rows = 1 /\ results[q].rows = 0
    /\ results[p].session_id \in Sessions
    /\ Status(results[p].session_id) = "paid"
    /\ local[q].paid_at < payment_sessions[results[p].session_id].paid_at

\* the sweep runs its conditional transition on session s in this step
ExpireCASStep(s) == sweep.pc = "cas" /\ s \in sweep.todo /\ s \notin sweep'.todo

Timestamps(s) == << payment_sessions[s].paid_at, payment_sessions[s].access_granted_at,
                    payment_sessions[s].access_expires_at >>

\* C2: when the expiry sweep and a settlement race for one session, the
\* session ends either paid or expired and only the winner's effects are
\* applied: an expired session has no paid/access timestamp and was never
\* settled, a paid session has them and was never expired, a session that is
\* paid or expired never changes again, and after either attempt has run its
\* update the session is paid or expired.
C2_PaidOrExpired ==
  /\ [](\A s \in Sessions :
          /\ Status(s) = "expired" =>
               /\ Timestamps(s) = << NULL, NULL, NULL >>
               /\ rowsAffected[s] = [paid |-> 0, expired |-> 1]
          /\ Status(s) = "paid" =>
               /\ NULL \notin { Timestamps(s)[i] : i \in 1 .. 3 }
               /\ rowsAffected[s] = [paid |-> 1, expired |-> 0])
  /\ [][\A s \in Sessions :
          Status(s) \in {"paid", "expired"} => payment_sessions'[s] = payment_sessions[s]]_vars
  /\ [][/\ \A p \in Workers :
             VerifyExecStep(p) /\ local[p].session_id \in Sessions =>
               payment_sessions'[local[p].session_id].status \in {"paid", "expired"}
        /\ \A s \in Sessions :
             ExpireCASStep(s) => payment_sessions'[s].status \in {"paid", "expired"}]_vars

\* C2 witness: a settlement that computed its access expiry while the session
\* was not yet stale ran its UPDATE after the sweep had expired the session,
\* and changed nothing
C2_Witness ==
  \E p \in Workers :
    /\ Verified(p) /\ results[p].rows = 0
    /\ results[p].session_id \in Sessions
    /\ Status(results[p].session_id) = "expired"
    /\ local[p].accessExpiresAt - Hour < payment_sessions[results[p].session_id].expires_at

Terminal == {"expired", "cancelled", "failed", "access_granted"}

\* an earlier read of status a may be followed by a later read of status b
ReadOrder(a, b) ==
  /\ a \in Terminal => b \notin {"pending", "paid"}
  /\ a = "paid" => b # "pending"

\* C3: the statuses read of one session are monotonic: after a read that
\* returned expired, cancelled, failed or access_granted no later read returns
\* pending or paid, and after a read that returned paid none returns pending.
C3_MonotonicReads ==
  \A i, j \in 1 .. Len(reads) :
    i < j /\ reads[i][1] = reads[j][1] => ReadOrder(reads[i][2], reads[j][2])

\* C3 witness: a session was read as expired, a settlement of it was then
\* attempted, and it was read again
C3_Witness ==
  \E p \in Workers :
    /\ Verified(p)
    /\ Len(reads) = 2
    /\ reads[1] = << results[p].session_id, "expired" >>
    /\ reads[2] = << results[p].session_id, "expired" >>
    /\ results[p].rows = 0

\* the bank events that carry the reference of session s
EventsFor(s) ==
  { t \in bank_transactions : t.payment_reference = payment_sessions[s].payment_reference }

\* event t matches session s by amount and currency
SameAmount(t, s) ==
  /\ t.amount_cents = payment_sessions[s].amount_cents
  /\ t.currency = payment_sessions[s].currency

\* the rows of content_access that originate from session s
GrantsOf(s) == { a \in content_access : a.session_id = s }

\* the content row of session s
ContentOf(s) == CHOOSE c \in content : c.content_id = payment_sessions[s].content_id

\* C4: settling a session that is already paid is idempotent: the second call
\* returns no error, leaves every session and every grant as it was, and the
\* duplicate is reported as DuplicateEvent.
C4_DuplicateSettlement ==
  [][\A p \in Workers :
       VerifyExecStep(p) /\ local[p].session_id \in Sessions
         /\ Status(local[p].session_id) = "paid" =>
            /\ results'[p].err = "nil"
            /\ payment_sessions' = payment_sessions
            /\ content_access' = content_access
            /\ results'[p].report = "DuplicateEvent"]_vars

\* C5: while the bank events that carry a pending session's reference all
\* differ from it in amount or currency, the session does not become paid.
C5_MismatchStaysPending ==
  [][\A s \in Sessions :
       /\ Status(s) = "pending"
       /\ EventsFor(s) # {}
       /\ \A t \in EventsFor(s) : ~SameAmount(t, s)
       => payment_sessions'[s].status # "paid"]_vars

\* C6: every paid session has a bank event that matches it by reference,
\* amount and currency.
C6_PaidHasMatchedEvent ==
  \A s \in Sessions :
    Status(s) = "paid" => \E t \in EventsFor(s) : SameAmount(t, s)

\* C7: every settled session has exactly one access grant that originates
\* from it, and every session never settled has none.
C7_OneGrantPerSettlement ==
  \A s \in Sessions :
    Cardinality(GrantsOf(s)) = IF rowsAffected[s].paid > 0 THEN 1 ELSE 0

\* C8: for a paid session with a user identifier, CheckAccess of its content
\* and user at a time before the session's access expiry answers
\* hasAccess = true.
C8_PaidSessionHasAccess ==
  \A p \in Workers, s \in Sessions :
    /\ pc[p] = "return" /\ results[p].op = "CheckAccess"
    /\ Status(s) = "paid"
    /\ payment_sessions[s].paid_at <= results[p].at
    /\ results[p].at < payment_sessions[s].access_expires_at
    /\ results[p].content_id = payment_sessions[s].content_id
    /\ results[p].user_identifier = payment_sessions[s].user_identifier
    => results[p].hasAccess

\* C9: the access expiry of a paid session is its settlement time plus the
\* access duration of its content.
C9_ExpiryFromContentDuration ==
  \A s \in Sessions :
    Status(s) = "paid" =>
      payment_sessions[s].access_expires_at
        = payment_sessions[s].paid_at + ContentOf(s).access_duration_seconds

\* the active grants of a (content, user) pair, whatever their expiry
ActiveGrants(contentID, userIdentifier) ==
  { a \in content_access :
      a.content_id = contentID /\ a.user_identifier = userIdentifier /\ a.is_active }

\* C10: CheckAccess at time t answers hasAccess = true when an active grant
\* of the pair has t < expiry, hasAccess = false when t >= expiry for all of
\* them, and the grant it returns is an active one of the pair with
\* t < expiry.
C10_ExpiryBoundary ==
  \A p \in Workers :
    pc[p] = "return" /\ results[p].op = "CheckAccess" =>
      LET t == results[p].at
          G == ActiveGrants(results[p].content_id, results[p].user_identifier)
      IN  /\ (\E a \in G : t < a.expires_at) => results[p].hasAccess
          /\ (\A a \in G : t >= a.expires_at) => ~results[p].hasAccess
          /\ results[p].hasAccess =>
               results[p].access \in G /\ t < results[p].access.expires_at

\* C10 witness: for a pair with one active grant, a check one second before
\* its expiry answered true and a check at its expiry answered false
C10_Witness ==
  \E p, q \in Workers : \E a \in content_access :
    /\ pc[p] = "return" /\ results[p].op = "CheckAccess"
    /\ pc[q] = "return" /\ results[q].op = "CheckAccess"
    /\ ActiveGrants(a.content_id, a.user_identifier) = {a}
    /\ results[p].content_id = a.content_id /\ results[q].content_id = a.content_id
    /\ results[p].user_identifier = a.user_identifier
    /\ results[q].user_identifier = a.user_identifier
    /\ results[p].at = a.expires_at - 1 /\ results[p].hasAccess
    /\ results[q].at = a.expires_at /\ ~results[q].hasAccess

\* C11: when several active, unexpired grants of one (content, user) pair
\* exist, the grant CheckAccess returns is the one with the latest expiry.
C11_LatestExpiryWins ==
  \A p \in Workers :
    pc[p] = "return" /\ results[p].op = "CheckAccess" /\ results[p].hasAccess =>
      \A a \in AccessRows(results[p].content_id, results[p].user_identifier, results[p].at) :
        a.expires_at <= results[p].access.expires_at

\* C12: a CreatePaymentSession whose content lookup succeeded, and whose
\* expiry time is later than its creation time, returns a session, and no two
\* sessions that are not terminal carry the same payment reference.
C12_UniqueReference ==
  /\ \A p \in Workers :
       /\ pc[p] = "return" /\ results[p].op = "CreatePaymentSession"
       /\ local[p] # NoLocal
       /\ local[p].expires_at > local[p].created_at
       => results[p].err = "nil"
  /\ \A s, t \in Sessions :
       s # t /\ Status(s) \notin Terminal /\ Status(t) \notin Terminal =>
         payment_sessions[s].payment_reference # payment_sessions[t].payment_reference

Elapse ==
  /\ UNCHANGED config
  /\ \E s \in Sessions :
       /\ Status(s) = "pending"
       /\ payment_sessions[s].expires_at > now
       /\ now' = payment_sessions[s].expires_at
  /\ UNCHANGED << payment_sessions, content_access, bank_transactions, pc, local,
                  results, sweep, reads, rowsAffected, calls >>

\* the operations that write payment_sessions, the clock, which moves from
\* one expiry time to the next, and the sweep
NextLive ==
  \/ Elapse
  \/ \E p \in Workers, k \in KnownKeys, m \in Merchants, c \in RequestedContentIDs,
          u \in Users : CreateLookup(p, k, m, c, u)
  \/ \E p \in Workers : CreateExpires(p)
  \/ \E p \in Workers : CreateCreated(p)
  \/ \E p \in Workers : CreateInsert(p)
  \/ \E p \in Workers, k \in KnownKeys, s \in SessionIDs : VerifyBegin(p, k, s)
  \/ \E p \in Workers : VerifyArgs(p)
  \/ \E p \in Workers : VerifyExec(p)
  \/ ExpireSelect
  \/ \E s \in SessionIDs : ExpireCAS(s)
  \/ \E p \in Workers : Return(p)

\* time passes, and the sweep runs at its cadence and finishes what it selected
SpecLive ==
  /\ Init /\ [][NextLive]_vars
  /\ WF_vars(Elapse)
  /\ WF_vars(ExpireSelect)
  /\ \A s \in SessionIDs : WF_vars(ExpireCAS(s))

\* the statuses a session ends in: paid (the settlement also sets the access
\* timestamps) and the terminal statuses
Ended == {"paid"} \cup Terminal

C15_InvalidTransition ==
  [][/\ \A s \in Sessions :
          payment_sessions'[s].status = "paid" /\ Status(s) # "paid" => Status(s) = "pending"
     /\ \A p \in Workers :
          VerifyExecStep(p) /\ local[p].session_id \in Sessions
            /\ Status(local[p].session_id) \in Terminal =>
              /\ payment_sessions' = payment_sessions
              /\ results'[p].err = "InvalidTransition"]_vars

\* worker p has returned from a successful CreatePaymentSession
Created(p) ==
  pc[p] = "return" /\ results[p].op = "CreatePaymentSession" /\ results[p].err = "nil"

\* worker p has returned from a successful GetPaymentSession
Got(p) ==
  pc[p] = "return" /\ results[p].op = "GetPaymentSession" /\ results[p].err = "nil"

\* the values of a session other than the two times taken from the Go clock
\* at creation
SessionValues(r) ==
  << r.session_id, r.merchant_id, r.content_id, r.user_identifier, r.amount_cents,
     r.currency, r.payment_reference, r.qr_code_data, r.status, r.paid_at,
     r.access_granted_at, r.access_expires_at >>

\* C16: the session a successful CreatePaymentSession returns is pending, has
\* a session identifier and a non-empty payment reference and null paid,
\* access-granted and access-expiry timestamps, and a GetPaymentSession of its
\* identifier, with no update of the session in between, returns the same
\* values.
C16_CreatedSession ==
  /\ \A p \in Workers :
       Created(p) =>
         LET r == results[p].session IN
           /\ r.status = "pending"
           /\ r.session_id = results[p].session_id /\ r.session_id \in SessionIDs
           /\ Len(r.payment_reference) > 0
           /\ << r.paid_at, r.access_granted_at, r.access_expires_at >> = << NULL, NULL, NULL >>
  /\ \A p, q \in Workers :
       /\ Created(p) /\ Got(q)
       /\ results[q].session_id = results[p].session_id
       /\ rowsAffected[results[p].session_id] = [paid |-> 0, expired |-> 0]
       => SessionValues(results[q].session) = SessionValues(results[p].session)

\* C16 witness: a session was created and, before the creating call has
\* answered, read by its identifier as pending
C16_Witness ==
  \E p, q \in Workers :
    /\ Created(p) /\ Got(q)
    /\ results[q].session_id = results[p].session_id
    /\ results[q].session.status = "pending"
    /\ results[q].session.user_identifier = NoUser

\* worker p takes a CreatePaymentSession call in this step
CreateCallStep(p) ==
  /\ pc[p] = "idle"
  /\ \/ pc'[p] = "create_expires"
     \/ pc'[p] = "return" /\ results'[p].op = "CreatePaymentSession"

\* an active row of content has this id and belongs to this merchant
ValidContent(merchantID, contentID) ==
  \E r \in content :
    r.content_id = contentID /\ r.merchant_id = merchantID /\ r.is_active

\* C17: a CreatePaymentSession for a content id that no row has, whose row is
\* inactive or whose row belongs to another merchant returns an error at once
\* and leaves the stored sessions unchanged.
C17_InvalidContentRejected ==
  [][\A p \in Workers :
       CreateCallStep(p) =>
         LET failed == pc'[p] = "return"
             m == IF failed THEN results'[p].merchant_id ELSE local'[p].merchant_id
             c == IF failed THEN results'[p].content_id ELSE local'[p].content.content_id
         IN  ~ValidContent(m, c) =>
               /\ failed
               /\ results'[p].err # "nil"
               /\ payment_sessions' = payment_sessions]_vars

\* C17 witness: with one session stored, creations for a content id no row
\* has and for the content of another merchant have returned errors
C17_Witness ==
  \E p, q \in Workers :
    /\ Cardinality(Sessions) = 1
    /\ pc[p] = "return" /\ results[p].op = "CreatePaymentSession"
    /\ results[p].err = "content not found" /\ results[p].content_id = "c0"
    /\ pc[q] = "return" /\ results[q].op = "CreatePaymentSession"
    /\ results[q].err = "content not found"
    /\ results[q].content_id = "c1" /\ results[q].merchant_id = "m2"

\* C18: a GetPaymentSession or VerifyPayment of a session identifier no row
\* has returns an error to the caller.
C18_NotFoundSurfaced ==
  \A p \in Workers :
    /\ pc[p] = "return"
    /\ results[p].op \in {"GetPaymentSession", "VerifyPayment"}
    /\ results[p].session_id \notin Sessions
    => results[p].err # "nil"

(* ------------------ callers with and without an API key ----------------- *)

\* the payment and content operations, for callers that may send no key
NextAuth ==
  \/ \E p \in Workers, k \in ApiKeys, m \in Merchants, c \in RequestedContentIDs,
          u \in Users : CreateLookup(p, k, m, c, u)
  \/ \E p \in Workers : CreateExpires(p)
  \/ \E p \in Workers : CreateCreated(p)
  \/ \E p \in Workers : CreateInsert(p)
  \/ \E p \in Workers, k \in ApiKeys, s \in SessionIDs : GetPaymentSession(p, k, s)
  \/ \E p \in Workers, k \in ApiKeys, s \in SessionIDs : VerifyBegin(p, k, s)
  \/ \E p \in Workers : VerifyArgs(p)
  \/ \E p \in Workers : VerifyExec(p)
  \/ \E p \in Workers, k \in ApiKeys, c \in ServedContentIDs, u \in AccessUsers :
       CheckAccess(p, k, c, u)
  \/ \E p \in Workers : Return(p)

SpecAuth == Init /\ [][NextAuth]_vars

\* C19: every payment-session operation and content-access operation that was
\* executed was executed for a caller that passed API-key authentication.
C19_AuthenticatedCallers ==
  \A p \in Workers :
    pc[p] = "return" => AuthRequired(results[p].api_key)

(* ------------------ references at the clock readings of today ----------- *)

\* Unix times the clock may show when the server starts
ClockReadings == {0, 1700000000, 1999999999}

InitRef ==
  /\ now \in ClockReadings
  /\ payment_sessions = << >>
  /\ content_access = {}
  /\ bank_transactions = {}
  /\ pc = [p \in Workers |-> "idle"]
  /\ local = [p \in Workers |-> NoLocal]
  /\ results = [p \in Workers |-> NoResult]
  /\ sweep = [pc |-> "idle", at |-> 0, todo |-> {}]
  /\ reads = << >>
  /\ rowsAffected = [s \in SessionIDs |-> [paid |-> 0, expired |-> 0]]
  /\ calls = 0
  /\ config = DefaultConfig

\* creations, while the clock moves from one expiry time to the next
NextRef ==
  \/ Elapse
  \/ \E p \in Workers, k \in KnownKeys, m \in Merchants, c \in RequestedContentIDs,
          u \in Users : CreateLookup(p, k, m, c, u)
  \/ \E p \in Workers : CreateExpires(p)
  \/ \E p \in Workers : CreateCreated(p)
  \/ \E p \in Workers : CreateInsert(p)
  \/ \E p \in Workers : Return(p)

SpecRef == InitRef /\ [][NextRef]_vars

UpperChars ==
  {"A", "B", "C", "D", "E", "F", "G", "H", "I", "J", "K", "L", "M",
   "N", "O", "P", "Q", "R", "S", "T", "U", "V", "W", "X", "Y", "Z"}
DigitChars == {"0", "1", "2", "3", "4", "5", "6", "7", "8", "9"}

\* the payment references generated: those of the creations in progress and
\* those of the stored sessions
GeneratedRefs ==
  { local[p].payment_reference : p \in Creating }
    \cup { payment_sessions[s].payment_reference : s \in Sessions }

CreateInsertStep(p) == pc[p] = "create_insert" /\ pc'[p] = "return"

\* the reference of the creation of worker p is one a stored session has
Collides(p) ==
  \E s \in Sessions : payment_sessions[s].payment_reference = local[p].payment_reference

\* C22: a CreatePaymentSession whose generated reference collides with a
\* stored one does not fail on that collision: it goes on with a new reference.
C22_RetryOnCollision ==
  [][\A p \in Workers :
       CreateInsertStep(p) /\ Collides(p) => results'[p].err = "nil"]_vars

\* worker p has returned from the content-serving path
Served(p) == pc[p] = "return" /\ results[p].op = "CheckAccess"

\* C23: the content-serving path answers 200 with the content exactly when an
\* active grant of the requested (content, user) pair expires after now; in
\* every other case it answers 402 payment required, without a grant.
C23_ServedOnlyWithGrant ==
  \A p \in Workers :
    Served(p) =>
      LET granted == \E a \in content_access :
                       /\ a.content_id = results[p].content_id
                       /\ a.user_identifier = results[p].user_identifier
                       /\ a.is_active
                       /\ a.expires_at > results[p].at
      IN  /\ results[p].code = 200 <=> granted
          /\ ~granted => /\ results[p].code = 402
                         /\ results[p].body = "Payment required"
                         /\ "access" \notin DOMAIN results[p]

\* C23 witness: a request for a pair whose only grant is inactive, and not yet
\* expired, was answered 402, and a request for another pair was answered 200
C23_Witness ==
  \E p, q \in Workers : \E a \in content_access :
    /\ Served(p) /\ Served(q)
    /\ results[p].code = 402 /\ results[q].code = 200
    /\ a.content_id = results[p].content_id
    /\ a.user_identifier = results[p].user_identifier
    /\ ~a.is_active /\ a.expires_at > results[p].at
    /\ \A b \in content_access :
         b.content_id = a.content_id /\ b.user_identifier = a.user_identifier => b = a

\* C24: the paid, access-granted and access-expiry timestamps of a session
\* change only in the step of a VerifyPayment that moves the session from
\* pending to paid, and only from null: they are written at most once, and a
\* later settlement attempt leaves them as they are.
C24_TimestampsWrittenOnce ==
  [][\A s \in Sessions :
       Timestamps(s)' # Timestamps(s) =>
         /\ Timestamps(s) = << NULL, NULL, NULL >>
         /\ Status(s) = "pending" /\ payment_sessions'[s].status = "paid"
         /\ \E p \in Workers : VerifyExecStep(p) /\ local[p].session_id = s]_vars

\* C24 witness: a settlement attempt that read the clock after the session
\* was paid has run its UPDATE, and the session keeps the earlier paid time
C24_Witness ==
  \E p, q \in Workers :
    /\ p # q /\ Verified(p) /\ Verified(q)
    /\ results[p].session_id = results[q].session_id
    /\ results[p].rows = 1 /\ results[q].rows = 0
    /\ results[p].session_id \in Sessions
    /\ payment_sessions[results[p].session_id].paid_at = local[p].paid_at
    /\ local[q].paid_at > local[p].paid_at

(* --------------------- any configured session timeout ------------------- *)

\* session timeouts the configuration file or the environment may set
Timeouts == {-SessionTimeout, 0, 1, SessionTimeout}

InitConfig ==
  /\ now = 0
  /\ payment_sessions = << >>
  /\ content_access = {}
  /\ bank_transactions = {}
  /\ pc = [p \in Workers |-> "idle"]
  /\ local = [p \in Workers |-> NoLocal]
  /\ results = [p \in Workers |-> NoResult]
  /\ sweep = [pc |-> "idle", at |-> 0, todo |-> {}]
  /\ reads = << >>
  /\ rowsAffected = [s \in SessionIDs |-> [paid |-> 0, expired |-> 0]]
  /\ calls = 0
  /\ \E t \in Timeouts : config = [session_timeout |-> t]

\* creations, while the clock advances
NextConfig ==
  \/ Tick
  \/ \E p \in Workers, k \in KnownKeys, m \in Merchants, c \in RequestedContentIDs,
          u \in Users : CreateLookup(p, k, m, c, u)
  \/ \E p \in Workers : CreateExpires(p)
  \/ \E p \in Workers : CreateCreated(p)
  \/ \E p \in Workers : CreateInsert(p)
  \/ \E p \in Workers : Return(p)

SpecConfig == InitConfig /\ [][NextConfig]_vars

\* C25: every stored session has amount > 0 and an expiry time later than its
\* creation time, whatever the configured session timeout; a creation whose
\* row would have amount <= 0 or expiry <= creation is rejected with an error
\* and stores nothing.
C25_AmountAndExpiry ==
  /\ [](\A s \in Sessions :
          /\ payment_sessions[s].amount_cents > 0
          /\ payment_sessions[s].expires_at > payment_sessions[s].created_at)
  /\ [][\A p \in Workers :
          /\ CreateInsertStep(p)
          /\ \/ local[p].content.price_cents <= 0
             \/ local[p].expires_at <= local[p].created_at
          => /\ results'[p].err # "nil"
             /\ payment_sessions' = payment_sessions]_vars

\* C25 witness: with a session timeout of zero or less, a creation was
\* rejected for its expiry time and the store is empty
C25_Witness ==
  \E p \in Workers :
    /\ pc[p] = "return" /\ results[p].op = "CreatePaymentSession"
    /\ results[p].err = "failed to create payment session"
    /\ config.session_timeout <= 0
    /\ local[p].expires_at <= local[p].created_at
    /\ Sessions = {}

\* C26: CheckAccess answers with access only with a grant whose content and
\* user are the requested ones, and never when the pair has no grant.
C26_GrantOfThePair ==
  \A p \in Workers :
    Served(p) =>
      /\ results[p].hasAccess =>
           /\ results[p].access \in content_access
           /\ results[p].access.content_id = results[p].content_id
           /\ results[p].access.user_identifier = results[p].user_identifier
      /\ (\A a \in content_access :
            a.content_id # results[p].content_id
              \/ a.user_identifier # results[p].user_identifier)
         => ~results[p].hasAccess

\* C26 witness: a check of a pair was answered without access while another
\* user holds an active, unexpired grant of the same content and the same
\* user holds one of another content
C26_Witness ==
  \E p \in Workers : \E a, b \in content_access :
    /\ Served(p) /\ ~results[p].hasAccess
    /\ a.is_active /\ a.expires_at > results[p].at
    /\ b.is_active /\ b.expires_at > results[p].at
    /\ a.content_id = results[p].content_id
    /\ a.user_identifier # results[p].user_identifier
    /\ b.content_id # results[p].content_id
    /\ b.user_identifier = results[p].user_identifier

\* worker p runs GetPaymentSession in this step
GetStep(p) ==
  pc[p] = "idle" /\ pc'[p] = "return" /\ results'[p].op = "GetPaymentSession"

\* C27: a status query changes no session and no grant, and answers with the
\* status and the paid, access-granted and access-expiry timestamps the
\* session has in the store.
C27_PureRead ==
  [][\A p \in Workers :
       GetStep(p) =>
         /\ payment_sessions' = payment_sessions
         /\ content_access' = content_access
         /\ results'[p].err = "nil" =>
              LET row == payment_sessions[results'[p].session_id]
                  b == results'[p].body
              IN  /\ b.status = row.status
                  /\ b.paid_at = row.paid_at
                  /\ b.access_granted_at = row.access_granted_at
                  /\ b.access_expires_at = row.access_expires_at
         /\ results'[p].err # "nil" => results'[p].session_id \notin Sessions]_vars

\* C27 witness: right after a settlement that changed the session, a status
\* query answered paid with the timestamps of that settlement
C27_Witness ==
  \E p, q \in Workers :
    /\ Verified(p) /\ results[p].rows = 1 /\ Got(q)
    /\ results[q].session_id = results[p].session_id
    /\ results[q].body.status = "paid"
    /\ results[q].body.paid_at = local[p].paid_at
    /\ results[q].body.access_expires_at = local[p].accessExpiresAt

(* ------------------- the clock jumps while a call runs ------------------ *)

\* the process is suspended, or the wall clock is set forward, by an hour
ClockJump ==
  /\ UNCHANGED config
  /\ now \div Hour < MaxTicks
  /\ now' = now + Hour
  /\ UNCHANGED << payment_sessions, content_access, bank_transactions, pc, local,
                  results, sweep, reads, rowsAffected, calls >>

\* creations and settlements, with a clock that may jump
NextJump ==
  \/ ClockJump
  \/ \E p \in Workers, k \in KnownKeys, m \in Merchants, c \in RequestedContentIDs,
          u \in Users : CreateLookup(p, k, m, c, u)
  \/ \E p \in Workers : CreateExpires(p)
  \/ \E p \in Workers : CreateCreated(p)
  \/ \E p \in Workers : CreateInsert(p)
  \/ \E p \in Workers, k \in KnownKeys, s \in SessionIDs : VerifyBegin(p, k, s)
  \/ \E p \in Workers : VerifyArgs(p)
  \/ \E p \in Workers : VerifyExec(p)
  \/ \E p \in Workers : Return(p)

SpecJump == Init /\ [][NextJump]_vars

\* C28: for every session, the status is paid if and only if the paid time is
\* set, if and only if the access-granted time is set, if and only if the
\* access-expiry time is set; and when set, the access-granted time equals
\* the paid time and the access-expiry time is later than the access-granted
\* time.
C28_PaidIffTimestamps ==
  \A s \in Sessions :
    LET row == payment_sessions[s] IN
      /\ Status(s) = "paid" <=> row.paid_at # NULL
      /\ Status(s) = "paid" <=> row.access_granted_at # NULL
      /\ Status(s) = "paid" <=> row.access_expires_at # NULL
      /\ Status(s) = "paid" =>
           /\ row.access_granted_at = row.paid_at
           /\ row.access_expires_at > row.access_granted_at

\* the values of a session VerifyPayment does not set
Frame(row) ==
  << row.session_id, row.merchant_id, row.content_id, row.user_identifier,
     row.amount_cents, row.currency, row.payment_reference, row.qr_code_data,
     row.created_at, row.expires_at >>

\* C29: the UPDATE of VerifyPayment(sessionID) adds and removes no session,
\* changes no grant, leaves the identifier, merchant, content, user
\* identifier, amount, currency, reference, payload, creation time and expiry
\* time of every session unchanged, and changes no field of a session with
\* another identifier.
C29_VerifyFrame ==
  [][\A p \in Workers :
       VerifyExecStep(p) =>
         /\ DOMAIN payment_sessions' = DOMAIN payment_sessions
         /\ content_access' = content_access
         /\ \A s \in Sessions :
              /\ Frame(payment_sessions'[s]) = Frame(payment_sessions[s])
              /\ s # local[p].session_id => payment_sessions'[s] = payment_sessions[s]]_vars

\* C29 witness: a settlement has changed its session while another session
\* is stored and still pending
C29_Witness ==
  \E p \in Workers : \E s, t \in Sessions :
    /\ Verified(p) /\ results[p].rows = 1 /\ results[p].session_id = s
    /\ t # s
    /\ Status(s) = "paid" /\ Status(t) = "pending"

====
